---------------------------- MODULE Spec2Model ----------------------------
(***************************************************************************)
(* Vision-request orchestration (services/vision_service.py) and result    *)
(* aggregation (services/aggregator.py) of the document processing         *)
(* service.                                                                *)
(*                                                                         *)
(* Spec     : one batch running VisionService.process_images, followed by  *)
(*            the call of aggregate_results on its outcomes.  The page     *)
(*            tasks are asyncio coroutines: the code between two awaits    *)
(*            runs without interruption, so a task that is not suspended   *)
(*            is the only one that moves (variable running).               *)
(* FairSpec : Spec with the fairness the event loop and the clock give.    *)
(* GateSpec : Spec for every value of settings.concurrent_requests.         *)
(* AggSpec  : DataAggregator.aggregate_results applied to file results     *)
(*            and page outcomes drawn from bounded sets, outcomes missing  *)
(*            or lacking fields included.                                  *)
(* ScenarioSpec : Spec for a document of two pages, the first answered     *)
(*            200, the second answered 429.                                *)
(* ParseSpec : VisionService._parse_vision_response applied to answers     *)
(*            built from fences, whitespace, JSON texts and other text.    *)
(* JobSpec  : calls of process_documents and the process-wide              *)
(*            ProgressTracker.                                             *)
(* CancelSpec : Spec where the request may be aborted while the batch      *)
(*            runs, every task that has not ended being cancelled.         *)
(* CooldownSpec : Spec for a batch of MaxPages pages whose first page can  *)
(*            be answered 429 while the others wait for capacity.          *)
(*                                                                         *)
(* Time.  The clock is read at a resolution of Resolution ticks per        *)
(* minute.  Capacities are stored multiplied by Resolution, so that the    *)
(* refill  max_per_minute * seconds / 60  is the integer                   *)
(* max_per_minute * ticks.  A sleep or an HTTP call lasts any number of    *)
(* ticks (zero included: all sleeps of the code are shorter than a tick).  *)
(***************************************************************************)
EXTENDS Integers, Sequences, FiniteSets

\* ------------------------------------------------------------------ bounds
\* Largest number of file results handed to aggregate_results.
MaxFiles == 2
\* Largest number of pages of the file results together.
MaxTotalPages == 3
\* Largest number of whitespace characters before and after an answer.
MaxPadding == 1
\* Number of calls of process_documents.
MaxJobs == 4
\* Largest number of pages of a batch whose calls all succeed.
MaxPages == 4
\* Largest number of pages of a batch whose calls can fail.
MaxFaultyPages == 2
\* Clock ticks per minute.
Resolution == 1
\* settings.rate_limit_per_minute of the run (requests per minute).
rate_limit_per_minute == 1
\* settings.max_retries of the run.
max_retries == 1

\* ------------------------------------------------------- program constants
max_tokens_per_minute == 125000
estimated_tokens == 1000
seconds_to_pause_after_rate_limit_error == 15
SemaphoreLimit == 3
tracker_rate_limit == 60
WindowSeconds == 60
retry_delay == 1

VARIABLES
  pages,                       \* the argument of process_images
  environment,                 \* what the API, the network and the disk do
                               \* to each page
  concurrent_requests,         \* settings.concurrent_requests
  semaphore,                   \* free permits of the asyncio.Semaphore
  available_request_capacity,  \* times Resolution
  available_token_capacity,    \* times Resolution
  elapsed,                     \* ticks since last_update_time (saturating)
  rate_limit_age,              \* ticks since time_of_last_rate_limit_error
  tracker_requests,            \* rate_limit_tracker._requests: age -> count
  pc,                          \* position of each page task
  running,                     \* the task that holds the event loop, or 0
  attempt,                     \* loop variable of _process_single_image
  result,                      \* value returned by each task
  calls,                       \* history: HTTP calls issued per page
  got400,                      \* history: the page received a 400
  faults,                      \* history: the failed calls of each page
  finished,                    \* history: tasks in order of completion
  processed_results,           \* what process_images returns
  returned,                    \* process_images has returned
  processed_files,             \* aggregate_results: the file results
  vision_results,              \* aggregate_results: the page outcomes
  response,                    \* aggregate_results: the value returned
  aggregated,                  \* "no", "returned" or "raised"
  api_response,                \* _parse_vision_response: the API response
  normalized,                  \* _parse_vision_response: the value returned
  _jobs,                       \* progress_tracker._jobs: the job ids held
  handlers                     \* the calls of process_documents: "new",
                               \* "running", "returned" or "failed"

vars == <<pages, environment, concurrent_requests, semaphore, available_request_capacity,
          available_token_capacity, elapsed, rate_limit_age, tracker_requests,
          pc, running, attempt, result, calls, got400, faults, finished,
          processed_results, returned, processed_files,
          vision_results, response, aggregated, api_response, normalized,
          _jobs, handlers>>

visionVars == <<pages, environment, concurrent_requests, semaphore,
                available_request_capacity, available_token_capacity, elapsed,
                rate_limit_age, tracker_requests, pc, running, attempt, result,
                calls, got400, faults, finished, processed_results, returned>>

aggVars == <<processed_files, vision_results, response, aggregated>>

parseVars == <<api_response, normalized>>

jobVars == <<_jobs, handlers>>

Min(a, b) == IF a <= b THEN a ELSE b

Tasks == 1..Len(pages)

\* ------------------------------------------------------------ page outcomes
NoError == [error_category |-> "None", error_message |-> "None"]

ProcessingError(category, message) ==
  [error_category |-> category, error_message |-> message]

\* aggregate_results has not returned.
NoResponse ==
  [success |-> FALSE, total_documents |-> 0, total_pages |-> 0,
   processed_documents |-> <<>>,
   summary |-> [api_calls_made |-> 0, estimated_cost |-> 0,
                success_rate |-> 0]]

\* _parse_vision_response has not returned.
NoEnvelope ==
  [parsed |-> "None", tables |-> "None", text_content |-> <<>>,
   overall_confidence |-> "None"]

\* A task that has not returned yet.
NoResult ==
  [page_id |-> 0, page_number |-> 0, success |-> FALSE, raised |-> FALSE,
   error |-> NoError, extracted_content |-> "None", api_cost |-> 0]

\* The dictionary returned on HTTP 200 (api_cost in 1/10000 dollar, gpt-4o).
SuccessResult(page) ==
  [page_id |-> page.page_id, page_number |-> page.page_number,
   success |-> TRUE, raised |-> FALSE, error |-> NoError,
   extracted_content |-> "envelope", api_cost |-> 75]

_create_error_result(page, error_category, error_message) ==
  [page_id |-> page.page_id, page_number |-> page.page_number,
   success |-> FALSE, raised |-> FALSE,
   error |-> ProcessingError(error_category, error_message),
   extracted_content |-> "None", api_cost |-> 0]

\* ------------------------------------------------------------------- input
\* The page dictionaries main.py collects from the file results: unique
\* page ids, page numbers restarting in every two-page document.
MakePages(n) ==
  [i \in 1..n |-> [page_id |-> 100 + i, page_number |-> ((i - 1) % 2) + 1]]

\* settings.concurrent_requests, default value.
DefaultConcurrentRequests == 5

\* --------------------------------------------------------- capacity limiter
\* Variants of the refill: without the maximum, without the refill.
RefillNoCap(available, max_per_minute, ticks) ==
  available + max_per_minute * ticks

RefillNever(available, max_per_minute, ticks) == available

\* One counter of _update_available_capacity:
\*   min(available + max_per_minute * seconds_since_update / 60, max)
RefillCapacity(available, max_per_minute, ticks) ==
  Min(available + max_per_minute * ticks, max_per_minute * Resolution)

\* The test of _wait_for_capacity.
HasCapacity(requests, tokens) ==
  /\ requests >= 1 * Resolution
  /\ tokens >= estimated_tokens * Resolution

\* Variant: no pause after a rate limit error.
InCooldownNever(age) == FALSE

\* seconds_since_rate_limit_error < seconds_to_pause_after_rate_limit_error
InCooldown(age) ==
  age * 60 < seconds_to_pause_after_rate_limit_error * Resolution

\* Ticks after which the cooldown is over for good.
CooldownTicks ==
  (seconds_to_pause_after_rate_limit_error * Resolution + 59) \div 60

\* Ticks after which a refill saturates whatever the debits of the batch.
ElapsedCap ==
  (Resolution * (rate_limit_per_minute + MaxPages) + rate_limit_per_minute - 1)
    \div rate_limit_per_minute

\* ------------------------------------------------------- RateLimitTracker
\* Ticks of the 60 second window.
WindowTicks == (WindowSeconds * Resolution) \div 60

\* _requests is kept as the number of its entries of each age, in ticks.
\* Every reader of _requests first filters out the entries that are 60 s old
\* or older, so those are dropped when they reach that age (AgeRequests)
\* and the filter itself finds nothing left to remove.
Ages == 0..(WindowTicks - 1)

EmptyTracker == [a \in Ages |-> 0]

\* [req_time for req_time in self._requests if current_time - req_time < 60]
PruneRequests(requests) ==
  [a \in Ages |-> IF a < WindowTicks THEN requests[a] ELSE 0]

RECURSIVE SumAges(_, _)
SumAges(requests, a) ==
  IF a < 0 THEN 0 ELSE requests[a] + SumAges(requests, a - 1)

\* len(self._requests)
CountRequests(requests) == SumAges(requests, WindowTicks - 1)

\* can_make_request, on the pruned list.
can_make_request(requests) ==
  CountRequests(PruneRequests(requests)) < tracker_rate_limit

\* record_request
record_request(requests) == [requests EXCEPT ![0] = @ + 1]

\* One tick later every request is one tick older.
AgeRequests(requests) ==
  [a \in Ages |-> IF a = 0 THEN 0 ELSE requests[a - 1]]

\* --------------------------------------------------------- concurrency gate
\* Variant: a semaphore of one permit per page.
MaxConcurrentPerPage(n) == n

\* max_concurrent = min(3, len(pages))
MaxConcurrent(n) == Min(SemaphoreLimit, n)

\* What the await of client.post can end in: a status code, a 200 whose
\* body response.json() rejects, httpx.TimeoutException, any other exception.
Responses ==
  {"200", "429", "400", "502", "503", "500", "200_invalid", "timeout",
   "exception"}

\* Everything the environment of a page task can do: the responses, and an
\* image file that cannot be read.
Events == Responses \cup {"encode_failure"}

\* ------------------------------------------------------------ initial state
\* A batch of one of pageCounts pages, in an environment that produces the
\* events of one of eventSets, with one of settingValues as
\* settings.concurrent_requests, the process-wide tracker holding one of
\* recorded requests of earlier batches, all of them recent.
ServiceInit(settingValues, recorded) ==
  /\ concurrent_requests \in settingValues
  /\ semaphore = MaxConcurrent(Len(pages))
  /\ available_request_capacity = rate_limit_per_minute * Resolution
  /\ available_token_capacity = max_tokens_per_minute * Resolution
  /\ elapsed = 0
  /\ rate_limit_age = CooldownTicks
  /\ tracker_requests \in {[EmptyTracker EXCEPT ![0] = n] : n \in recorded}
  /\ pc = [t \in Tasks |-> "start"]
  /\ running = 0
  /\ attempt = [t \in Tasks |-> 0]
  /\ result = [t \in Tasks |-> NoResult]
  /\ calls = [t \in Tasks |-> 0]
  /\ got400 = [t \in Tasks |-> FALSE]
  /\ faults = [t \in Tasks |-> <<>>]
  /\ finished = <<>>
  /\ processed_results = <<>>
  /\ returned = FALSE

\* No response is being normalized, no call of process_documents is
\* followed.
OthersIdle ==
  /\ api_response = [choices |-> FALSE, content |-> <<>>]
  /\ normalized = NoEnvelope
  /\ _jobs = {}
  /\ handlers = <<>>

\* Every page of the batch meets the same events.
VisionInit(pageCounts, eventSets, settingValues, recorded) ==
  /\ pages \in {MakePages(n) : n \in pageCounts}
  /\ environment \in {[t \in 1..Len(pages) |-> e] : e \in eventSets}
  /\ ServiceInit(settingValues, recorded)

\* The file results of a request: page counts of the files, pages numbered
\* from 1 in every file, page ids unique over the request, a file-level
\* error or none.
FileError == ProcessingError("FILE_FORMAT", "Failed to process file")

RECURSIVE SumTo(_, _)
SumTo(counts, k) == IF k = 0 THEN 0 ELSE counts[k] + SumTo(counts, k - 1)

MakeFiles(counts, failing) ==
  [f \in 1..Len(counts) |->
     [filename |-> f,
      pages |-> [k \in 1..counts[f] |->
                   [page_id |-> 100 + SumTo(counts, f - 1) + k,
                    page_number |-> k]],
      errors |-> IF f \in failing THEN <<FileError>> ELSE <<>>]]

\* The page counts of the files of a request of n pages, made of two-page
\* documents.
CountsOf(n) == [f \in 1..((n + 1) \div 2) |-> IF 2 * f <= n THEN 2 ELSE 1]

InitWith(pageCounts, eventSets, settingValues, recorded) ==
  /\ VisionInit(pageCounts, eventSets, settingValues, recorded)
  /\ processed_files = MakeFiles(CountsOf(Len(pages)), {})
  /\ vision_results = <<>>
  /\ response = NoResponse
  /\ aggregated = "no"
  /\ OthersIdle

\* The events of a batch whose calls can fail: success, rate limiting, a
\* server error.
BatchEvents == {"200", "429", "500"}

\* The events of a batch whose calls all succeed.
QuietEvents == {"200"}

\* The batches explored: one page in an environment where everything can
\* happen, a few pages whose calls can fail, more pages whose calls all
\* succeed.  The earlier batches of the process left the tracker one request
\* short of its limit (after a minute without calls it is empty again).
Batches(settingValues) ==
  \/ InitWith({1}, {Events}, settingValues, {tracker_rate_limit - 1})
  \/ InitWith(1..MaxFaultyPages, {BatchEvents}, settingValues,
              {tracker_rate_limit - 1})
  \/ InitWith(1..MaxPages, {QuietEvents}, settingValues,
              {tracker_rate_limit - 1})

Init == Batches({DefaultConcurrentRequests})

\* ------------------------------------------------- process_with_rate_limiting
\* "async with semaphore": asyncio.Semaphore serves its waiters first come
\* first served and gather starts the tasks in page order.
AcquireSemaphore(t) ==
  /\ running = 0
  /\ pc[t] = "start"
  /\ \A u \in Tasks : u < t => pc[u] # "start"
  /\ semaphore > 0
  /\ semaphore' = semaphore - 1
  /\ pc' = [pc EXCEPT ![t] = "wait_capacity"]
  /\ running' = t
  /\ UNCHANGED <<pages, environment, concurrent_requests, available_request_capacity,
                 available_token_capacity, elapsed, rate_limit_age,
                 tracker_requests, attempt, result, calls, got400, faults,
                 finished, processed_results, returned, aggVars, parseVars, jobVars>>

\* One iteration of the loop of _wait_for_capacity: refill, test, and either
\* leave the loop or go to sleep (the cooldown pause or the 0.1 s pause).
WaitForCapacity(t) ==
  /\ running = t
  /\ pc[t] = "wait_capacity"
  /\ LET requests == RefillCapacity(available_request_capacity,
                                    rate_limit_per_minute, elapsed)
         tokens == RefillCapacity(available_token_capacity,
                                  max_tokens_per_minute, elapsed)
     IN  /\ available_request_capacity' = requests
         /\ available_token_capacity' = tokens
         /\ elapsed' = 0
         /\ IF HasCapacity(requests, tokens)
            THEN /\ pc' = [pc EXCEPT ![t] = "process"]
                 /\ running' = t
            ELSE /\ pc' = [pc EXCEPT ![t] =
                             IF InCooldown(rate_limit_age)
                             THEN "cooldown_sleep" ELSE "capacity_sleep"]
                 /\ running' = 0
  /\ UNCHANGED <<pages, environment, concurrent_requests, semaphore, rate_limit_age,
                 tracker_requests, attempt, result, calls, got400, faults,
                 finished, processed_results, returned, aggVars, parseVars, jobVars>>

\* The sleep of _wait_for_capacity is over: "continue" / next iteration.
WakeFromCapacitySleep(t) ==
  /\ running = 0
  /\ pc[t] \in {"cooldown_sleep", "capacity_sleep"}
  /\ pc' = [pc EXCEPT ![t] = "wait_capacity"]
  /\ running' = t
  /\ UNCHANGED <<pages, environment, concurrent_requests, semaphore,
                 available_request_capacity, available_token_capacity, elapsed,
                 rate_limit_age, tracker_requests, attempt, result, calls,
                 got400, faults, finished, processed_results,
                 returned, aggVars, parseVars, jobVars>>

\* ------------------------------------------------------ _process_single_image
\* Variant: a loop of one more attempt.
AttemptsExhaustedLate(a) == a > max_retries + 1

\* for attempt in range(self.max_retries + 1): the loop is over.
AttemptsExhausted(a) == a > max_retries

\* The task returns value from _process_single_image.
Return(t, value) ==
  /\ result' = [result EXCEPT ![t] = value]
  /\ attempt' = [attempt EXCEPT ![t] = 0]
  /\ pc' = [pc EXCEPT ![t] = "update_capacity"]
  /\ running' = t

\* Variant: an encoding failure retried after a wait.
EncodeFailedRetrying(t) ==
  /\ pc' = [pc EXCEPT ![t] = "backoff"]
  /\ running' = 0
  /\ UNCHANGED <<result, attempt, calls>>

\* if not base64_image: return the error result, without any call.
EncodeFailed(t) ==
  /\ Return(t, _create_error_result(pages[t], "SYSTEM_ERROR",
                                    "Failed to encode image"))
  /\ calls' = calls

\* The head of one loop iteration up to the await of client.post: the loop
\* test, the sliding-window check, the encoding of the image.
ProcessAttempt(t) ==
  /\ running = t
  /\ pc[t] = "process"
  /\ IF AttemptsExhausted(attempt[t])
     THEN /\ Return(t, _create_error_result(pages[t], "API_FAILURE",
                                            "All retry attempts failed"))
          /\ UNCHANGED <<tracker_requests, calls>>
     ELSE /\ tracker_requests' = PruneRequests(tracker_requests)
          /\ IF ~can_make_request(tracker_requests)
             THEN /\ pc' = [pc EXCEPT ![t] = "tracker_sleep"]
                  /\ running' = 0
                  /\ UNCHANGED <<result, calls, attempt>>
             ELSE \E encoded \in
                      IF "encode_failure" \in environment[t]
                      THEN BOOLEAN ELSE {TRUE} :
                    IF ~encoded
                    THEN EncodeFailed(t)
                    ELSE /\ pc' = [pc EXCEPT ![t] = "http"]
                         /\ calls' = [calls EXCEPT ![t] = @ + 1]
                         /\ running' = 0
                         /\ UNCHANGED <<result, attempt>>
  /\ UNCHANGED <<pages, environment, concurrent_requests, semaphore,
                 available_request_capacity, available_token_capacity, elapsed,
                 rate_limit_age, got400, faults, finished,
                 processed_results, returned, aggVars, parseVars, jobVars>>

\* asyncio.sleep(1) after a refused sliding-window check, then "continue".
WakeFromTrackerSleep(t) ==
  /\ running = 0
  /\ pc[t] = "tracker_sleep"
  /\ attempt' = [attempt EXCEPT ![t] = @ + 1]
  /\ pc' = [pc EXCEPT ![t] = "process"]
  /\ running' = t
  /\ UNCHANGED <<pages, environment, concurrent_requests, semaphore,
                 available_request_capacity, available_token_capacity, elapsed,
                 rate_limit_age, tracker_requests, result, calls, got400, faults,
                 finished, processed_results, returned,
                 aggVars, parseVars, jobVars>>

\* client.post returned a response, so record_request runs.
Answered(r) == r \notin {"timeout", "exception"}

\* Variant: a 400 handled as the other API errors.
ClassifyRetrying400(r) ==
  CASE r = "200" -> "success"
    [] r = "429" -> "rate_limited"
    [] r \in {"400", "502", "503", "500"} -> "api_error"
    [] r = "timeout" -> "timeout"
    [] OTHER -> "unexpected"

\* Variant: a 429 handled as the other API errors.
ClassifyRateLimitAsApiError(r) ==
  CASE r = "200" -> "success"
    [] r = "400" -> "bad_request"
    [] r \in {"429", "502", "503", "500"} -> "api_error"
    [] r = "timeout" -> "timeout"
    [] OTHER -> "unexpected"

\* Variant: a timeout handled by the handler of the unexpected faults.
ClassifyTimeoutAsUnexpected(r) ==
  CASE r = "200" -> "success"
    [] r = "429" -> "rate_limited"
    [] r = "400" -> "bad_request"
    [] r \in {"502", "503", "500"} -> "api_error"
    [] OTHER -> "unexpected"

\* The branch of the try statement that handles r.
Classify(r) ==
  CASE r = "200" -> "success"
    [] r = "429" -> "rate_limited"
    [] r = "400" -> "bad_request"
    [] r \in {"502", "503", "500"} -> "api_error"
    [] r = "timeout" -> "timeout"
    [] OTHER -> "unexpected"

\* error_msg of the "other API error" branch.
ApiErrorMessage(r) ==
  CASE r = "502" -> "OpenAI API server error (502 Bad Gateway)"
    [] r = "503" -> "OpenAI API service unavailable (503)"
    [] OTHER -> "API error"

\* The value of a task that ended in an exception.
RaisedResult(page, message) ==
  [page_id |-> page.page_id, page_number |-> page.page_number,
   success |-> FALSE, raised |-> TRUE,
   error |-> ProcessingError("None", message),
   extracted_content |-> "None", api_cost |-> 0]

\* Variant: the exception of the last attempt leaves the coroutine.
RetryOrRaise(t, category, message) ==
  IF attempt[t] < max_retries
  THEN /\ pc' = [pc EXCEPT ![t] = "backoff"]
       /\ running' = 0
       /\ UNCHANGED <<result, attempt>>
  ELSE Return(t, RaisedResult(pages[t], message))

\* if attempt < self.max_retries: sleep and continue; else: return the error.
RetryOrFail(t, category, message) ==
  IF attempt[t] < max_retries
  THEN /\ pc' = [pc EXCEPT ![t] = "backoff"]
       /\ running' = 0
       /\ UNCHANGED <<result, attempt>>
  ELSE Return(t, _create_error_result(pages[t], category, message))

\* Variant: the same wait after every failure.
WaitTimeConstant(a) == retry_delay

\* wait_time = self.retry_delay * (2 ** attempt), in seconds.
wait_time(a) == retry_delay * 2 ^ a

\* The failure r of this attempt of task t is followed by
\* asyncio.sleep(wait_time) and "continue".
WillRetry(t, r) ==
  \/ Classify(r) = "rate_limited"
  \/ /\ Classify(r) \in {"api_error", "timeout", "unexpected"}
     /\ attempt[t] < max_retries

\* The await of client.post ends in r; the rest of the loop body runs up to
\* its return or its next await.
HttpResponse(t, r) ==
  /\ running = 0
  /\ pc[t] = "http"
  /\ r \in environment[t]
  /\ tracker_requests' =
       IF Answered(r) THEN record_request(tracker_requests)
       ELSE tracker_requests
  /\ got400' = [got400 EXCEPT ![t] = @ \/ r = "400"]
  /\ faults' =
       IF Classify(r) = "success" THEN faults
       ELSE [faults EXCEPT ![t] =
               Append(@, [attempt |-> attempt[t], fault |-> r,
                          wait_time |-> IF WillRetry(t, r)
                                        THEN wait_time(attempt[t]) ELSE 0])]
  /\ rate_limit_age' = IF Classify(r) = "rate_limited" THEN 0 ELSE rate_limit_age
  /\ CASE Classify(r) = "success" -> Return(t, SuccessResult(pages[t]))
       [] Classify(r) = "rate_limited" ->
            /\ pc' = [pc EXCEPT ![t] = "backoff"]
            /\ running' = 0
            /\ UNCHANGED <<result, attempt>>
       [] Classify(r) = "bad_request" ->
            Return(t, _create_error_result(pages[t], "API_FAILURE",
                                           "Bad request"))
       [] Classify(r) = "api_error" ->
            RetryOrFail(t, "API_FAILURE", ApiErrorMessage(r))
       [] Classify(r) = "timeout" ->
            RetryOrFail(t, "API_FAILURE", "API request timeout")
       [] OTHER -> RetryOrFail(t, "SYSTEM_ERROR", "Unexpected error")
  /\ UNCHANGED <<pages, environment, concurrent_requests, semaphore,
                 available_request_capacity, available_token_capacity, elapsed,
                 calls, finished,
                 processed_results, returned, aggVars, parseVars, jobVars>>

\* asyncio.sleep(wait_time) is over: "continue" starts the next iteration.
WakeFromBackoff(t) ==
  /\ running = 0
  /\ pc[t] = "backoff"
  /\ attempt' = [attempt EXCEPT ![t] = @ + 1]
  /\ pc' = [pc EXCEPT ![t] = "process"]
  /\ running' = t
  /\ UNCHANGED <<pages, environment, concurrent_requests, semaphore,
                 available_request_capacity, available_token_capacity, elapsed,
                 rate_limit_age, tracker_requests, result, calls, got400, faults,
                 finished, processed_results, returned,
                 aggVars, parseVars, jobVars>>

\* _update_capacity_after_request, then the await of asyncio.sleep(0.001).
UpdateCapacityAfterRequest(t) ==
  /\ running = t
  /\ pc[t] = "update_capacity"
  /\ available_request_capacity' = available_request_capacity - 1 * Resolution
  /\ available_token_capacity' =
       available_token_capacity - estimated_tokens * Resolution
  /\ pc' = [pc EXCEPT ![t] = "pause"]
  /\ running' = 0
  /\ UNCHANGED <<pages, environment, concurrent_requests, semaphore, elapsed,
                 rate_limit_age, tracker_requests, attempt, result, calls,
                 got400, faults, finished, processed_results,
                 returned, aggVars, parseVars, jobVars>>

\* The 1 ms pause is over: "return result" leaves "async with semaphore".
ReleaseSemaphore(t) ==
  /\ running = 0
  /\ pc[t] = "pause"
  /\ semaphore' = semaphore + 1
  /\ finished' = Append(finished, t)
  /\ pc' = [pc EXCEPT ![t] = "done"]
  /\ UNCHANGED <<pages, environment, concurrent_requests, available_request_capacity,
                 available_token_capacity, elapsed, rate_limit_age,
                 tracker_requests, running, attempt, result, calls, got400, faults,
                 processed_results, returned, aggVars, parseVars, jobVars>>

\* -------------------------------------------------------------- process_images
\* The dictionary built for a task whose result is an exception.
ExceptionResult(page) ==
  [page_id |-> page.page_id, page_number |-> page.page_number,
   success |-> FALSE, raised |-> FALSE,
   error |-> ProcessingError("SYSTEM_ERROR", "Processing failed"),
   extracted_content |-> "None", api_cost |-> 0]

\* Variant: the results in the order in which the tasks ended.
GatheredInCompletionOrder ==
  [i \in 1..Len(pages) |->
     IF result[finished[i]].raised THEN ExceptionResult(pages[i])
     ELSE result[finished[i]]]

\* asyncio.gather returns the results in the order of the tasks; the loop
\* over enumerate(results) replaces exceptions by error dictionaries.
Gathered ==
  [i \in 1..Len(pages) |->
     IF result[i].raised THEN ExceptionResult(pages[i]) ELSE result[i]]

GatherResults ==
  /\ running = 0
  /\ ~returned
  /\ \A t \in Tasks : pc[t] = "done"
  /\ processed_results' = Gathered
  /\ returned' = TRUE
  /\ vision_results' = Gathered
  /\ UNCHANGED <<pages, environment, concurrent_requests, semaphore,
                 available_request_capacity, available_token_capacity, elapsed,
                 rate_limit_age, tracker_requests, pc, running, attempt,
                 result, calls, got400, faults, finished, processed_files, response,
                 aggregated, parseVars, jobVars>>

\* ---------------------------------------------------------------------- clock
\* time.time() moves on by one tick.
Tick ==
  /\ ~returned
  /\ elapsed' = Min(elapsed + 1, ElapsedCap)
  /\ rate_limit_age' = Min(rate_limit_age + 1, CooldownTicks)
  /\ tracker_requests' = AgeRequests(tracker_requests)
  /\ UNCHANGED <<pages, environment, concurrent_requests, semaphore,
                 available_request_capacity, available_token_capacity, pc,
                 running, attempt, result, calls, got400, faults,
                 finished, processed_results, returned, aggVars, parseVars, jobVars>>

TaskStep(t) ==
  \/ AcquireSemaphore(t)
  \/ WaitForCapacity(t)
  \/ WakeFromCapacitySleep(t)
  \/ ProcessAttempt(t)
  \/ WakeFromTrackerSleep(t)
  \/ \E r \in Responses : HttpResponse(t, r)
  \/ WakeFromBackoff(t)
  \/ UpdateCapacityAfterRequest(t)
  \/ ReleaseSemaphore(t)

\* -------------------------------------------------------------- aggregation
\* Variant: the outcomes taken by their position in the list.
VisionResultsByPosition(results) ==
  [id \in {100 + i : i \in 1..Len(results)} |-> results[id - 100]]

\* vision_results_map of aggregate_results: the outcomes by page_id, the last
\* of the list winning, the outcomes without page_id left out.
vision_results_map(results) ==
  LET ids == {results[i].page_id : i \in 1..Len(results)} \ {0}
      last(id) ==
        CHOOSE i \in 1..Len(results) :
          /\ results[i].page_id = id
          /\ \A j \in (i + 1)..Len(results) : results[j].page_id # id
  IN  [id \in ids |-> results[last(id)]]

\* The ExtractedData of a successful page: the first document of the
\* envelope, or the content itself when it has no documents list.
ExtractedData(page, vision_result) ==
  [page_number |-> page.page_number,
   image_id |-> page.page_id,
   api_cost |-> vision_result.api_cost,
   extracted_content |->
     IF vision_result.extracted_content = "envelope"
     THEN "document" ELSE "empty"]

\* Variant: a status rule that does not look at the errors.
ProcessingStatusIgnoringErrors(successful, total, errors) ==
  IF successful = 0 THEN "FAILED"
  ELSE IF successful = total THEN "SUCCESS" ELSE "PARTIAL"

\* The status rule of _process_file_result.
ProcessingStatus(successful_pages, total_pages, document_errors) ==
  IF successful_pages = 0 THEN "FAILED"
  ELSE IF successful_pages = total_pages /\ Len(document_errors) = 0
       THEN "SUCCESS"
       ELSE "PARTIAL"

\* The loop over the pages of a file result.  'documents' in None raises
\* TypeError: a successful outcome whose extracted_content is None ends the
\* loop in an exception.
RECURSIVE ProcessPages(_, _, _)
ProcessPages(file_pages, map, acc) ==
  IF file_pages = <<>> \/ acc.raised THEN acc
  ELSE
    LET page == Head(file_pages)
        found == page.page_id \in DOMAIN map
        vision_result == map[page.page_id]
    IN  ProcessPages(Tail(file_pages), map,
          IF found /\ vision_result.success
          THEN IF vision_result.extracted_content = "None"
               THEN [acc EXCEPT !.raised = TRUE]
               ELSE [acc EXCEPT
                       !.extracted_data =
                          Append(@, ExtractedData(page, vision_result)),
                       !.successful_pages = @ + 1]
          ELSE IF found /\ vision_result.error # NoError
               THEN [acc EXCEPT
                       !.document_errors = Append(@, vision_result.error)]
               ELSE acc)

\* Variant: the errors of the failed pages are not kept.
ProcessFileResultDroppingPageErrors(file_result, map) ==
  LET acc == ProcessPages(file_result.pages, map,
                          [raised |-> FALSE, extracted_data |-> <<>>,
                           document_errors |-> file_result.errors,
                           successful_pages |-> 0])
      total_pages == Len(file_result.pages)
  IN  [raised |-> acc.raised,
       filename |-> file_result.filename,
       page_count |-> total_pages,
       processing_status |->
         ProcessingStatus(acc.successful_pages, total_pages,
                          acc.document_errors),
       extracted_data |-> acc.extracted_data,
       errors |-> file_result.errors]

_process_file_result(file_result, map) ==
  LET acc == ProcessPages(file_result.pages, map,
                          [raised |-> FALSE, extracted_data |-> <<>>,
                           document_errors |-> file_result.errors,
                           successful_pages |-> 0])
      total_pages == Len(file_result.pages)
  IN  [raised |-> acc.raised,
       filename |-> file_result.filename,
       page_count |-> total_pages,
       processing_status |->
         ProcessingStatus(acc.successful_pages, total_pages,
                          acc.document_errors),
       extracted_data |-> acc.extracted_data,
       errors |-> acc.document_errors]

RECURSIVE Sum(_)
Sum(numbers) ==
  IF numbers = <<>> THEN 0 ELSE Head(numbers) + Sum(Tail(numbers))

\* sum(doc.page_count for doc in processed_documents)
TotalPages(processed_documents) ==
  Sum([i \in 1..Len(processed_documents) |->
         processed_documents[i].page_count])

\* sum(len(doc.extracted_data) for doc in processed_documents)
SuccessfulPages(processed_documents) ==
  Sum([i \in 1..Len(processed_documents) |->
         Len(processed_documents[i].extracted_data)])

\* The api_cost of the extracted_data entries of the documents.
TotalCost(processed_documents) ==
  Sum([i \in 1..Len(processed_documents) |->
         Sum([k \in 1..Len(processed_documents[i].extracted_data) |->
                processed_documents[i].extracted_data[k].api_cost])])

\* Variant: every page counted as an API call.
CalculateSummaryCountingPages(processed_documents) ==
  LET total_pages == TotalPages(processed_documents)
      successful_pages == SuccessfulPages(processed_documents)
  IN  [api_calls_made |-> TotalPages(processed_documents),
       estimated_cost |-> TotalCost(processed_documents),
       success_rate |->
         IF total_pages > 0
         THEN (successful_pages * 100 * 100) \div total_pages
         ELSE 0]

\* Variant: the rate taken over the documents instead of the pages.
CalculateSummaryRateOverDocuments(processed_documents) ==
  LET successful_pages == SuccessfulPages(processed_documents)
  IN  [api_calls_made |-> SuccessfulPages(processed_documents),
       estimated_cost |-> TotalCost(processed_documents),
       success_rate |->
         IF Len(processed_documents) > 0
         THEN (successful_pages * 100 * 100) \div Len(processed_documents)
         ELSE 0]

\* _calculate_summary; success_rate in 1/100 of a percent, rounded down.
_calculate_summary(processed_documents) ==
  LET total_pages == TotalPages(processed_documents)
      successful_pages == SuccessfulPages(processed_documents)
  IN  [api_calls_made |-> SuccessfulPages(processed_documents),
       estimated_cost |-> TotalCost(processed_documents),
       success_rate |->
         IF total_pages > 0
         THEN (successful_pages * 100 * 100) \div total_pages
         ELSE 0]

\* Variant: only a document without any failure makes the batch a success.
DetermineSuccessOnlyComplete(processed_documents) ==
  \E i \in 1..Len(processed_documents) :
    processed_documents[i].processing_status = "SUCCESS"

_determine_overall_success(processed_documents) ==
  \E i \in 1..Len(processed_documents) :
    processed_documents[i].processing_status \in {"SUCCESS", "PARTIAL"}

\* aggregate_results: the exception of a file result is logged and raised
\* again, otherwise the response is built from the documents.
aggregate_results(files, results) ==
  LET map == vision_results_map(results)
      documents ==
        [i \in 1..Len(files) |-> _process_file_result(files[i], map)]
  IN  IF \E i \in 1..Len(documents) : documents[i].raised
      THEN [raised |-> TRUE, response |-> NoResponse]
      ELSE [raised |-> FALSE,
            response |->
              [success |-> _determine_overall_success(documents),
               total_documents |-> Len(documents),
               total_pages |-> TotalPages(documents),
               processed_documents |-> documents,
               summary |-> _calculate_summary(documents)]]

\* process_documents calls aggregate_results when process_images has
\* returned (at once when there is no page).
AggregateResults ==
  /\ aggregated = "no"
  /\ returned \/ pages = <<>>
  /\ LET value == aggregate_results(processed_files, vision_results)
     IN  /\ aggregated' = IF value.raised THEN "raised" ELSE "returned"
         /\ response' = value.response
  /\ UNCHANGED <<processed_files, vision_results, visionVars, parseVars,
                 jobVars>>

\* The file results handed to aggregate_results.
FileResults ==
  UNION {{MakeFiles(counts, failing) :
            counts \in {c \in [1..n -> 0..MaxTotalPages] :
                          SumTo(c, n) <= MaxTotalPages},
            failing \in SUBSET (1..n)} : n \in 0..MaxFiles}

RECURSIVE Flatten(_)
Flatten(seqs) == IF seqs = <<>> THEN <<>> ELSE Head(seqs) \o Flatten(Tail(seqs))

AllPages(files) == Flatten([f \in 1..Len(files) |-> files[f].pages])

\* What process_images can have left for a page, and what it cannot: an
\* outcome without page_id, a success without the extracted_content key or
\* with None for it, a failure without error, no outcome.
Shapes ==
  {"success", "failure", "no_page_id", "no_content_key", "content_none",
   "no_error", "missing"}

Outcome(page, shape) ==
  CASE shape = "success" -> SuccessResult(page)
    [] shape = "failure" ->
         _create_error_result(page, "API_FAILURE", "All retry attempts failed")
    [] shape = "no_page_id" -> [SuccessResult(page) EXCEPT !.page_id = 0]
    [] shape = "no_content_key" ->
         [SuccessResult(page) EXCEPT !.extracted_content = "absent"]
    [] shape = "content_none" ->
         [SuccessResult(page) EXCEPT !.extracted_content = "None"]
    [] shape = "no_error" ->
         [_create_error_result(page, "API_FAILURE", "None")
            EXCEPT !.error = NoError]

\* The outcomes of the pages in page order, or in the reverse order.
RECURSIVE Outcomes(_, _, _)
Outcomes(all_pages, shapes, k) ==
  IF k > Len(all_pages) THEN <<>>
  ELSE (IF shapes[k] = "missing" THEN <<>>
        ELSE <<Outcome(all_pages[k], shapes[k])>>)
         \o Outcomes(all_pages, shapes, k + 1)

Reverse(seq) == [i \in 1..Len(seq) |-> seq[Len(seq) + 1 - i]]

AggInit ==
  /\ VisionInit({0}, {{}}, {DefaultConcurrentRequests}, {0})
  /\ processed_files \in FileResults
  /\ \E shapes \in [1..Len(AllPages(processed_files)) -> Shapes] :
       LET in_order == Outcomes(AllPages(processed_files), shapes, 1)
       IN  vision_results \in {in_order, Reverse(in_order)}
  /\ response = NoResponse
  /\ aggregated = "no"
  /\ OthersIdle

AggSpec == AggInit /\ [][AggregateResults]_vars

\* ------------------------------------------------------------ normalization
\* The model's answer is a string, here a sequence of tokens: the fence
\* (three backquotes), the tag json, a newline, a space, a JSON text (named
\* after the value it denotes) or text that is not JSON.
Fence == "fence"
Newline == "\n"
Whitespace == {" ", Newline}

\* JSON texts: an object with a documents list, an object whose documents
\* is not a list, an object with text_content and tables, another object,
\* an array, a string, a number.
JsonObjects == {"J_documents", "J_documents_not_list", "J_text", "J_object"}
JsonTexts == JsonObjects \cup {"J_array", "J_string", "J_number"}

\* str.strip()
RECURSIVE LStrip(_)
LStrip(s) ==
  IF s # <<>> /\ Head(s) \in Whitespace THEN LStrip(Tail(s)) ELSE s

RECURSIVE RStrip(_)
RStrip(s) ==
  IF s # <<>> /\ s[Len(s)] \in Whitespace
  THEN RStrip(SubSeq(s, 1, Len(s) - 1)) ELSE s

Strip(s) == RStrip(LStrip(s))

StartsWith(s, prefix) ==
  Len(s) >= Len(prefix) /\ SubSeq(s, 1, Len(prefix)) = prefix

EndsWith(s, suffix) ==
  Len(s) >= Len(suffix)
    /\ SubSeq(s, Len(s) - Len(suffix) + 1, Len(s)) = suffix

\* s.split('\n')
RECURSIVE Split(_, _)
Split(s, line) ==
  IF s = <<>> THEN <<line>>
  ELSE IF Head(s) = Newline THEN <<line>> \o Split(Tail(s), <<>>)
       ELSE Split(Tail(s), Append(line, Head(s)))

\* '\n'.join(lines)
RECURSIVE Join(_)
Join(lines) ==
  IF lines = <<>> THEN <<>>
  ELSE IF Len(lines) = 1 THEN lines[1]
       ELSE lines[1] \o <<Newline>> \o Join(Tail(lines))

\* The removal of the markdown code block.
CleanContent(content) ==
  LET stripped == Strip(content)
      lines == Split(stripped, <<>>)
      last == lines[Len(lines)]
  IN  IF StartsWith(stripped, <<Fence, "json">>)
      THEN LET opened == SubSeq(stripped, 3, Len(stripped))
           IN  Strip(IF EndsWith(opened, <<Fence>>)
                     THEN SubSeq(opened, 1, Len(opened) - 1)
                     ELSE opened)
      ELSE IF StartsWith(stripped, <<Fence>>)
      THEN IF Strip(lines[1]) = <<Fence>> /\ Strip(last) = <<Fence>>
           THEN Strip(Join(SubSeq(lines, 2, Len(lines) - 1)))
           ELSE IF Strip(last) = <<Fence>>
           THEN LET joined == Join(SubSeq(lines, 1, Len(lines) - 1))
                IN  Strip(IF StartsWith(joined, <<Fence>>)
                          THEN Tail(joined) ELSE joined)
           ELSE Strip(stripped)
      ELSE stripped

\* json.loads succeeds on one JSON text with whitespace around it.
IsJson(text) == Len(Strip(text)) = 1 /\ Strip(text)[1] \in JsonTexts

Envelope(tables, text_content, overall_confidence) ==
  [parsed |-> "None", tables |-> tables, text_content |-> text_content,
   overall_confidence |-> overall_confidence]

\* The except branch of the function.
FailedToParse == Envelope("empty", <<"Failed to parse response">>, "0.0")

\* What follows json.loads.  The membership test raises TypeError on a
\* number, and get raises AttributeError on an array and on a string: both
\* end in the except branch of the function.
Normalize(extracted_data, content) ==
  IF extracted_data = "J_documents"
  THEN [parsed |-> extracted_data, tables |-> "None", text_content |-> <<>>,
        overall_confidence |-> "given"]
  ELSE IF extracted_data \in JsonObjects
  THEN Envelope(IF extracted_data = "J_text" THEN "tables of the answer"
                ELSE "empty",
                IF extracted_data = "J_text"
                THEN <<"text_content of the answer">> ELSE content,
                "0.5")
  ELSE FailedToParse

_parse_vision_response(response_body) ==
  IF ~response_body.choices THEN FailedToParse
  ELSE LET cleaned_content == CleanContent(response_body.content)
       IN  IF IsJson(cleaned_content)
           THEN Normalize(Strip(cleaned_content)[1], response_body.content)
           ELSE Envelope("empty", response_body.content, "0.1")

ParseVisionResponse ==
  /\ normalized = NoEnvelope
  /\ normalized' = _parse_vision_response(api_response)
  /\ UNCHANGED <<api_response, visionVars, aggVars, jobVars>>

\* The answers: a body between an opening and a closing, with whitespace
\* around; and a response without choices.
Openings ==
  {<<>>, <<Fence>>, <<Fence, Newline>>, <<Fence, "json">>,
   <<Fence, "json", Newline>>, <<Fence, " ", Newline>>}

Closings == {<<>>, <<Fence>>, <<Newline, Fence>>, <<Newline, Fence, " ">>}

Bodies == {<<j>> : j \in JsonTexts} \cup {<<"prose">>, <<>>}

Paddings ==
  UNION {[1..n -> Whitespace] : n \in 0..MaxPadding}

Answers ==
  {lead \o opening \o body \o closing \o trail :
     lead \in Paddings, opening \in Openings, body \in Bodies,
     closing \in Closings, trail \in Paddings}

ParseInit ==
  /\ VisionInit({0}, {{}}, {DefaultConcurrentRequests}, {0})
  /\ processed_files = <<>>
  /\ vision_results = <<>>
  /\ response = NoResponse
  /\ aggregated = "no"
  /\ api_response \in
       {[choices |-> TRUE, content |-> answer] : answer \in Answers}
         \cup {[choices |-> FALSE, content |-> <<>>]}
  /\ normalized = NoEnvelope
  /\ _jobs = {}
  /\ handlers = <<>>

ParseSpec == ParseInit /\ [][ParseVisionResponse]_vars

\* ------------------------------------------------------------ job tracking
\* ProgressTracker.start_job: self._jobs[job_id] = metrics
start_job(jobs, job_id) == jobs \cup {job_id}

\* ProgressTracker.finish_job stamps the end time of the metrics and leaves
\* the entry in self._jobs.
finish_job(jobs, job_id) == jobs

\* process_documents up to its first await: a new processing_id, start_job.
StartProcessing(j) ==
  /\ handlers[j] = "new"
  /\ handlers' = [handlers EXCEPT ![j] = "running"]
  /\ _jobs' = start_job(_jobs, j)
  /\ UNCHANGED <<visionVars, aggVars, parseVars>>

\* process_documents ends, with the response or with an HTTPException; the
\* finally clause calls metrics.finish() and progress_tracker.finish_job.
FinishProcessing(j, outcome) ==
  /\ handlers[j] = "running"
  /\ handlers' = [handlers EXCEPT ![j] = outcome]
  /\ _jobs' = finish_job(_jobs, j)
  /\ UNCHANGED <<visionVars, aggVars, parseVars>>

JobNext ==
  \/ \E j \in DOMAIN handlers : StartProcessing(j)
  \/ \E j \in DOMAIN handlers :
       \E outcome \in {"returned", "failed"} : FinishProcessing(j, outcome)

\* MaxJobs requests arrive at a process that has tracked no job yet.
JobInit ==
  /\ VisionInit({0}, {{}}, {DefaultConcurrentRequests}, {0})
  /\ processed_files = <<>>
  /\ vision_results = <<>>
  /\ response = NoResponse
  /\ aggregated = "no"
  /\ api_response = [choices |-> FALSE, content |-> <<>>]
  /\ normalized = NoEnvelope
  /\ _jobs = {}
  /\ handlers = [j \in 1..MaxJobs |-> "new"]

JobSpec == JobInit /\ [][JobNext]_vars

\* ----------------------------------------------------------- specifications
Next ==
  \/ \E t \in Tasks : AcquireSemaphore(t)
  \/ \E t \in Tasks : WaitForCapacity(t)
  \/ \E t \in Tasks : WakeFromCapacitySleep(t)
  \/ \E t \in Tasks : ProcessAttempt(t)
  \/ \E t \in Tasks : WakeFromTrackerSleep(t)
  \/ \E t \in Tasks : \E r \in Responses : HttpResponse(t, r)
  \/ \E t \in Tasks : WakeFromBackoff(t)
  \/ \E t \in Tasks : UpdateCapacityAfterRequest(t)
  \/ \E t \in Tasks : ReleaseSemaphore(t)
  \/ GatherResults
  \/ AggregateResults
  \/ Tick

Spec == Init /\ [][Next]_vars

\* The event loop runs every ready task, every sleep and every HTTP call
\* ends, and the clock advances.
Fairness ==
  /\ \A t \in 1..MaxPages : WF_vars(t \in Tasks /\ TaskStep(t))
  /\ WF_vars(GatherResults)
  /\ WF_vars(Tick)

FairSpec == Spec /\ Fairness

\* The batch of Spec under any value of settings.concurrent_requests.
GateSpec ==
  Batches(1..DefaultConcurrentRequests) /\ [][Next]_vars

\* A document of two pages: the calls for the first page answer 200, the
\* calls for the second page answer 429.
ScenarioInit ==
  /\ pages = MakePages(2)
  /\ environment = <<{"200"}, {"429"}>>
  /\ ServiceInit({DefaultConcurrentRequests}, {0, tracker_rate_limit - 1})
  /\ processed_files = MakeFiles(CountsOf(Len(pages)), {})
  /\ vision_results = <<>>
  /\ response = NoResponse
  /\ aggregated = "no"
  /\ OthersIdle

ScenarioSpec == ScenarioInit /\ [][Next]_vars

\* A batch of MaxPages pages, more than the semaphore admits at once: the
\* calls for the first page answer 200 or 429, the others answer 200.
CooldownInit ==
  /\ pages = MakePages(MaxPages)
  /\ environment = [t \in 1..MaxPages |->
                      IF t = 1 THEN {"200", "429"} ELSE {"200"}]
  /\ ServiceInit({DefaultConcurrentRequests}, {0, tracker_rate_limit - 1})
  /\ processed_files = MakeFiles(CountsOf(Len(pages)), {})
  /\ vision_results = <<>>
  /\ response = NoResponse
  /\ aggregated = "no"
  /\ OthersIdle

CooldownSpec == CooldownInit /\ [][Next]_vars

\* --------------------------------------------------------------- cancellation
\* The request is aborted while process_images awaits asyncio.gather: gather
\* cancels every task that has not ended, and each of them gets the
\* CancelledError at the await where it is suspended.
CancelBatch ==
  /\ running = 0
  /\ ~returned
  /\ \E t \in Tasks : pc[t] # "done"
  /\ \A t \in Tasks : pc[t] \notin {"unwinding_held", "unwinding_free", "cancelled"}
  /\ pc' = [t \in Tasks |->
             IF pc[t] = "done" THEN "done"
             ELSE IF pc[t] = "start" THEN "unwinding_free"
             ELSE "unwinding_held"]
  /\ UNCHANGED <<pages, environment, concurrent_requests, semaphore,
                 available_request_capacity, available_token_capacity, elapsed,
                 rate_limit_age, tracker_requests, running, attempt, result,
                 calls, got400, faults, finished, processed_results, returned,
                 aggVars, parseVars, jobVars>>

\* Variant: a cancelled task that keeps its permit.
UnwindKeepingPermit(t) ==
  /\ running = 0
  /\ pc[t] \in {"unwinding_held", "unwinding_free"}
  /\ pc' = [pc EXCEPT ![t] = "cancelled"]
  /\ UNCHANGED <<pages, environment, concurrent_requests, semaphore,
                 available_request_capacity, available_token_capacity, elapsed,
                 rate_limit_age, tracker_requests, running, attempt, result,
                 calls, got400, faults, finished, processed_results, returned,
                 aggVars, parseVars, jobVars>>

\* The CancelledError leaves the coroutine of task t: a task inside
\* "async with semaphore" runs __aexit__, which releases its permit; a task
\* still waiting in acquire holds none.
Unwind(t) ==
  /\ running = 0
  /\ pc[t] \in {"unwinding_held", "unwinding_free"}
  /\ semaphore' = IF pc[t] = "unwinding_held" THEN semaphore + 1 ELSE semaphore
  /\ pc' = [pc EXCEPT ![t] = "cancelled"]
  /\ UNCHANGED <<pages, environment, concurrent_requests,
                 available_request_capacity, available_token_capacity, elapsed,
                 rate_limit_age, tracker_requests, running, attempt, result,
                 calls, got400, faults, finished, processed_results, returned,
                 aggVars, parseVars, jobVars>>

CancelNext ==
  \/ Next
  \/ CancelBatch
  \/ \E t \in Tasks : Unwind(t)

\* A batch that may be cancelled at any await.
CancelSpec == Init /\ [][CancelNext]_vars

\* ===================================================================== claims
\* The tasks inside "async with semaphore".
Holders ==
  {t \in Tasks : pc[t] \notin {"start", "done", "unwinding_free", "cancelled"}}

\* The positions after the return of _process_single_image.
AfterProcessing == {"update_capacity", "pause", "done"}

\* C1: check and debit form one atomic step, so that the request capacity
\* and the token capacity are never negative.
C1_CapacityNeverNegative ==
  /\ available_request_capacity >= 0
  /\ available_token_capacity >= 0

\* C2: when _wait_for_capacity lets a page proceed, the request capacity has
\* decreased by exactly 1 and the token capacity by exactly 1000 relative to
\* the values that passed the test, and no other step lowers them.
C2_DebitOnAdmission ==
  [][\A t \in Tasks :
       IF pc[t] = "wait_capacity" /\ pc'[t] = "process"
       THEN /\ available_request_capacity' =
                 RefillCapacity(available_request_capacity,
                                rate_limit_per_minute, elapsed)
                   - 1 * Resolution
            /\ available_token_capacity' =
                 RefillCapacity(available_token_capacity,
                                max_tokens_per_minute, elapsed)
                   - estimated_tokens * Resolution
       ELSE running = t =>
              /\ available_request_capacity' >= available_request_capacity
              /\ available_token_capacity' >= available_token_capacity]_vars

\* C3: in every reachable state both capacities are at most their configured
\* maxima.
C3_CapacityWithinMaxima ==
  /\ available_request_capacity <= rate_limit_per_minute * Resolution
  /\ available_token_capacity <= max_tokens_per_minute * Resolution

\* A refill that saturated: a page has been debited, and after idle time the
\* capacities are back at their maxima.
C3_Witness ==
  /\ \E t \in Tasks : pc[t] \in {"pause", "done"}
  /\ \E t \in Tasks : pc[t] = "process" /\ running = t
  /\ available_request_capacity = rate_limit_per_minute * Resolution
  /\ available_token_capacity = max_tokens_per_minute * Resolution

\* C4: the tasks holding a permit are at most
\* min(settings.concurrent_requests, number of pages).
C4_HoldersWithinConfigured ==
  Cardinality(Holders) <= Min(concurrent_requests, Len(pages))

\* C5: process_images returns one outcome per page, the i-th carrying the
\* page_id and the page_number of the i-th page.
C5_OneOutcomePerPage ==
  returned =>
    /\ Len(processed_results) = Len(pages)
    /\ \A i \in 1..Len(pages) :
         /\ processed_results[i].page_id = pages[i].page_id
         /\ processed_results[i].page_number = pages[i].page_number

\* The calls completed out of page order, one of them in failure.
C5_Witness ==
  /\ returned
  /\ Len(pages) >= 2
  /\ finished[1] # 1
  /\ \E i \in 1..Len(pages) : ~processed_results[i].success

\* C6: _process_single_image returns an outcome whatever happened: a failure
\* carries a category and a message, no content and no cost; a success
\* carries no error.
C6_PageNeverRaises ==
  \A t \in Tasks :
    pc[t] \in AfterProcessing =>
      /\ ~result[t].raised
      /\ result[t].page_id = pages[t].page_id
      /\ result[t].success =>
           /\ result[t].error = NoError
           /\ result[t].extracted_content # "None"
      /\ ~result[t].success =>
           /\ result[t].error.error_category \in
                {"API_FAILURE", "SYSTEM_ERROR"}
           /\ result[t].error.error_message # "None"
           /\ result[t].extracted_content = "None"
           /\ result[t].api_cost = 0

\* A page that failed after its last retry ended in an unexpected fault.
C6_Witness ==
  \E t \in Tasks :
    /\ pc[t] = "done"
    /\ calls[t] = max_retries + 1
    /\ result[t].error = ProcessingError("SYSTEM_ERROR", "Unexpected error")

\* C7: with a running clock, calls that end and fair scheduling,
\* process_images eventually returns, every page having ended in an outcome.
C7_BatchReturns == <>(returned /\ \A t \in Tasks : pc[t] = "done")

\* A page sleeps in the capacity loop while another waits for a permit.
C7_Witness ==
  \E t, u \in Tasks :
    /\ pc[t] = "capacity_sleep"
    /\ pc[u] = "start"
    /\ semaphore = 0

\* C8: a 400 ends the page: the task is past its loop (no backoff, no
\* further call) with a failure of category API_FAILURE.
C8_BadRequestIsTerminal ==
  \A t \in Tasks :
    got400[t] =>
      /\ pc[t] \in AfterProcessing
      /\ ~result[t].success
      /\ result[t].error.error_category = "API_FAILURE"

\* A 400 received by a retry.
C8_Witness ==
  \E t \in Tasks : got400[t] /\ calls[t] = 2 /\ pc[t] = "done"

\* C9: at most max_retries + 1 HTTP calls are issued for a page.
C9_CallsBounded == \A t \in Tasks : calls[t] <= max_retries + 1

\* A page whose every attempt issued a call and was rate limited.
C9_Witness ==
  \E t \in Tasks :
    /\ calls[t] = max_retries + 1
    /\ pc[t] = "done"
    /\ result[t].error.error_message = "All retry attempts failed"

\* The pages of a file result with a successful outcome in vision_results.
SucceededPages(file_result) ==
  {k \in 1..Len(file_result.pages) :
     \E i \in 1..Len(vision_results) :
       /\ vision_results[i].page_id = file_result.pages[k].page_id
       /\ vision_results[i].success}

\* The pages of a file result whose outcome is a failure carrying an error.
PagesWithError(file_result) ==
  {k \in 1..Len(file_result.pages) :
     \E i \in 1..Len(vision_results) :
       /\ vision_results[i].page_id = file_result.pages[k].page_id
       /\ ~vision_results[i].success
       /\ vision_results[i].error # NoError}

\* C10: a document is FAILED if none of its pages has a successful outcome
\* (an empty page list included), SUCCESS if every page has one and there is
\* neither a file-level error nor a page error, PARTIAL otherwise.
C10_DocumentStatusRule ==
  aggregated = "returned" =>
    \A d \in 1..Len(processed_files) :
      LET file_result == processed_files[d]
          status == response.processed_documents[d].processing_status
      IN  IF SucceededPages(file_result) = {}
          THEN status = "FAILED"
          ELSE IF /\ SucceededPages(file_result) =
                       1..Len(file_result.pages)
                  /\ file_result.errors = <<>>
                  /\ PagesWithError(file_result) = {}
               THEN status = "SUCCESS"
               ELSE status = "PARTIAL"

\* A response with a document without pages and a document whose pages all
\* succeeded while the file result carried an error.
C10_Witness ==
  /\ aggregated = "returned"
  /\ \E d \in 1..Len(processed_files) :
       /\ processed_files[d].pages = <<>>
       /\ response.processed_documents[d].processing_status = "FAILED"
  /\ \E d \in 1..Len(processed_files) :
       /\ processed_files[d].pages # <<>>
       /\ processed_files[d].errors # <<>>
       /\ SucceededPages(processed_files[d]) =
            1..Len(processed_files[d].pages)
       /\ response.processed_documents[d].processing_status = "PARTIAL"
\* C11: the success flag of the response is true exactly when a document is
\* SUCCESS or PARTIAL; without documents it is false and total_documents and
\* total_pages are 0.
C11_BatchSuccessFlag ==
  aggregated = "returned" =>
    /\ response.success <=>
         \E d \in 1..Len(response.processed_documents) :
           response.processed_documents[d].processing_status
             \in {"SUCCESS", "PARTIAL"}
    /\ response.success <=>
         \E d \in 1..Len(processed_files) :
           SucceededPages(processed_files[d]) # {}
    /\ processed_files = <<>> =>
         /\ ~response.success
         /\ response.total_documents = 0
         /\ response.total_pages = 0

\* A batch that succeeds through a PARTIAL document alone, its other
\* document FAILED.
C11_Witness ==
  /\ aggregated = "returned"
  /\ response.success
  /\ Len(response.processed_documents) = 2
  /\ \E d \in 1..2 :
       response.processed_documents[d].processing_status = "FAILED"
  /\ \E d \in 1..2 :
       response.processed_documents[d].processing_status = "PARTIAL"
\* The pages of a file result that have an outcome in vision_results.
PagesWithOutcome(file_result) ==
  {k \in 1..Len(file_result.pages) :
     \E i \in 1..Len(vision_results) :
       vision_results[i].page_id = file_result.pages[k].page_id}

\* The errors of a document whose category is that of a failed page.
PageFailureErrors(document) ==
  {k \in 1..Len(document.errors) :
     document.errors[k].error_category \in {"API_FAILURE", "SYSTEM_ERROR"}}

\* C12: for every batch total_pages is the sum of the page counts of the
\* documents, and the extracted_data entries and the page-failure errors of
\* the documents are together at least as many as the pages with an outcome.
C12_PagesAccountedFor ==
  aggregated = "returned" =>
    LET documents == response.processed_documents
    IN  /\ response.total_pages =
             Sum([d \in 1..Len(documents) |-> documents[d].page_count])
        /\ Sum([d \in 1..Len(documents) |->
                  Len(documents[d].extracted_data)
                    + Cardinality(PageFailureErrors(documents[d]))])
             >= Sum([d \in 1..Len(processed_files) |->
                       Cardinality(PagesWithOutcome(processed_files[d]))])

\* A batch with a page that succeeded and a page that failed.
C12_Witness ==
  /\ aggregated = "returned"
  /\ \E d \in 1..Len(processed_files) :
       /\ Cardinality(PagesWithOutcome(processed_files[d])) = 2
       /\ Len(response.processed_documents[d].extracted_data) = 1
       /\ Cardinality(PageFailureErrors(response.processed_documents[d])) = 1
C14_SuccessRate ==
  aggregated = "returned" =>
    LET total == Sum([d \in 1..Len(processed_files) |->
                        Len(processed_files[d].pages)])
        successful == Sum([d \in 1..Len(processed_files) |->
                             Cardinality(SucceededPages(processed_files[d]))])
        rate == response.summary.success_rate
    IN  /\ total = 0 => rate = 0
        /\ total > 0 =>
             /\ rate * total <= successful * 100 * 100
             /\ successful * 100 * 100 < (rate + 1) * total
        /\ 0 <= rate
        /\ rate <= 100 * 100

\* One page of three succeeded, in two documents: 33.33 percent.
C14_Witness ==
  /\ aggregated = "returned"
  /\ Len(processed_files) = 2
  /\ response.total_pages = 3
  /\ response.summary.success_rate = 3333
\* C15: aggregate_results never raises, whatever outcomes are missing or
\* lack fields: it returns a response.
C15_AggregationNeverRaises == aggregated # "raised"
\* The rearrangements of a list.
Permutations(seq) ==
  {[i \in 1..Len(seq) |-> seq[p[i]]] :
     p \in {q \in [1..Len(seq) -> 1..Len(seq)] :
              \A i, j \in 1..Len(seq) : q[i] = q[j] => i = j}}

\* C16: when the outcomes have distinct page ids, every permutation of
\* vision_results gives the same response (statuses, error lists, summary),
\* and extracted_data follows the page list of its document.
C16_OrderIndependent ==
  (/\ aggregated # "no"
   /\ \A i, j \in 1..Len(vision_results) :
        (/\ vision_results[i].page_id = vision_results[j].page_id
         /\ vision_results[i].page_id # 0) => i = j)
    =>
      /\ \A permuted \in Permutations(vision_results) :
           LET value == aggregate_results(processed_files, permuted)
           IN  /\ value.raised <=> aggregated = "raised"
               /\ value.response = response
      /\ aggregated = "returned" =>
           \A d \in 1..Len(response.processed_documents) :
             LET extracted == response.processed_documents[d].extracted_data
             IN  \A a, b \in 1..Len(extracted) :
                   a < b => extracted[a].page_number < extracted[b].page_number

\* The outcomes of two pages of a document arrived in the reverse order,
\* one a success and one a failure.
C16_Witness ==
  /\ aggregated = "returned"
  /\ Len(vision_results) >= 2
  /\ vision_results[1].page_id > vision_results[2].page_id
  /\ vision_results[2].page_id # 0
  /\ vision_results[1].success # vision_results[2].success
  /\ \E d \in 1..Len(response.processed_documents) :
       response.processed_documents[d].processing_status = "PARTIAL"
\* C17: a document of two pages, the call for the first page answered 200,
\* every call for the second page answered 429: the second page ends in the
\* all-retries-failed outcome of category API_FAILURE, and the document is
\* PARTIAL with that error as its only error.
C17_ScenarioRateLimitedPage ==
  (aggregated = "returned" /\ calls[1] >= 1) =>
    /\ vision_results[1].success
    /\ vision_results[2] =
         _create_error_result(pages[2], "API_FAILURE",
                              "All retry attempts failed")
    /\ Len(response.processed_documents) = 1
    /\ response.processed_documents[1].processing_status = "PARTIAL"
    /\ Len(response.processed_documents[1].extracted_data) = 1
    /\ response.processed_documents[1].errors =
         <<ProcessingError("API_FAILURE", "All retry attempts failed")>>

\* The second page was rate limited max_retries + 1 times.
C17_Witness ==
  /\ aggregated = "returned"
  /\ calls[1] = 1
  /\ calls[2] = max_retries + 1
  /\ response.processed_documents[1].processing_status = "PARTIAL"
\* C18: after the removal of the fence the result is one of three: JSON
\* with a documents list is returned unchanged, any other JSON is wrapped
\* into one document of confidence 0.5, text that is not JSON gives one
\* document of confidence 0.1 whose text_content is the raw answer.
C18_ThreeWayNormalization ==
  (normalized # NoEnvelope /\ api_response.choices) =>
    LET cleaned == CleanContent(api_response.content)
    IN  IF IsJson(cleaned)
        THEN IF Strip(cleaned)[1] = "J_documents"
             THEN normalized.parsed = "J_documents"
             ELSE /\ normalized.parsed = "None"
                  /\ normalized.overall_confidence = "0.5"
        ELSE /\ normalized.parsed = "None"
             /\ normalized.overall_confidence = "0.1"
             /\ normalized.text_content = api_response.content

\* A JSON text inside one fenced code block, with the json tag or without.
Fenced(j) ==
  {<<Fence, "json", Newline, j, Newline, Fence>>,
   <<Fence, Newline, j, Newline, Fence>>}

\* C19: for every JSON text, the answer made of the text inside one fenced
\* code block is normalized to the same envelope as the text alone.
C19_FenceTransparent ==
  normalized # NoEnvelope =>
    \A j \in JsonTexts :
      (api_response.choices /\ api_response.content \in Fenced(j)) =>
        normalized =
          _parse_vision_response([choices |-> TRUE, content |-> <<j>>])
\* C20: when process_documents has finished, with a response or with an
\* error, the progress tracker no longer holds the job: it holds the running
\* jobs only.
C20_JobsDiscarded ==
  /\ \A j \in DOMAIN handlers :
       handlers[j] \in {"returned", "failed"} => j \notin _jobs
  /\ Cardinality(_jobs) =
       Cardinality({j \in DOMAIN handlers : handlers[j] = "running"})
\* C21: a task holds its permit at every position from the capacity wait to
\* the end of its retry sequence, backoff included, and gives it back once on
\* return and on cancellation: the free permits are the permits of the
\* semaphore less the tasks inside the block, and all are free when
\* process_images has returned or every task has ended.
C21_PermitHeldUntilOutcome ==
  /\ semaphore = MaxConcurrent(Len(pages)) - Cardinality(Holders)
  /\ \A t \in Tasks :
       pc[t] \in {"wait_capacity", "cooldown_sleep", "capacity_sleep",
                  "process", "tracker_sleep", "http", "backoff",
                  "update_capacity", "pause"} => t \in Holders
  /\ returned => semaphore = MaxConcurrent(Len(pages))
  /\ (\A t \in Tasks : pc[t] \in {"done", "cancelled"}) =>
       semaphore = MaxConcurrent(Len(pages))

\* A batch cancelled after a call of one of its pages, every task unwound,
\* one of them ended normally before.
C21_Witness ==
  /\ \E t \in Tasks : pc[t] = "cancelled" /\ calls[t] >= 1
  /\ \E t \in Tasks : pc[t] = "done"
  /\ \A t \in Tasks : pc[t] \in {"done", "cancelled"}
  /\ semaphore = MaxConcurrent(Len(pages))
\* The calls of _update_capacity_after_request made by task t: the one call
\* that follows the return of _process_single_image.
Debits(t) == IF pc[t] \in {"pause", "done"} THEN 1 ELSE 0

\* C22: the capacity is waited for and debited once per attempt, so that a
\* page that has issued k HTTP calls has debited k times.
C22_DebitPerCall ==
  \A t \in Tasks : pc[t] = "done" => Debits(t) = calls[t]
\* The waits of task t, in the order in which they were slept.
Waits(t) ==
  SelectSeq([i \in 1..Len(faults[t]) |-> faults[t][i].wait_time],
            LAMBDA w : w # 0)

\* C23: the wait that follows a failure of attempt a is retry_delay * 2^a
\* seconds whatever the failure (429, 502, 503, other status, timeout,
\* unexpected fault), and the successive waits of a page strictly increase.
C23_ExponentialBackoff ==
  \A t \in Tasks :
    /\ \A i \in 1..Len(faults[t]) :
         faults[t][i].wait_time # 0 =>
           faults[t][i].wait_time = retry_delay * 2 ^ faults[t][i].attempt
    /\ pc[t] = "backoff" =>
         /\ faults[t] # <<>>
         /\ faults[t][Len(faults[t])].attempt = attempt[t]
         /\ faults[t][Len(faults[t])].wait_time = retry_delay * 2 ^ attempt[t]
    /\ \A i, j \in 1..Len(Waits(t)) : i < j => Waits(t)[i] < Waits(t)[j]

\* A page that waited after a timeout and then after a 429.
C23_Witness ==
  \E t \in Tasks :
    /\ Len(faults[t]) = 2
    /\ faults[t][1].fault = "timeout"
    /\ faults[t][2].fault = "429"
    /\ Waits(t) = <<retry_delay, 2 * retry_delay>>
    /\ pc[t] = "backoff"
\* C24: when the last permitted attempt of a page (attempt max_retries) has
\* failed, the page ends in a failure whose category follows from the fault
\* of that attempt: API_FAILURE after a 429, a 502, a 503, another status or
\* a timeout, SYSTEM_ERROR after any other fault.
C24_TerminalCategory ==
  \A t \in Tasks :
    (/\ pc[t] \in AfterProcessing
     /\ faults[t] # <<>>
     /\ faults[t][Len(faults[t])].attempt = max_retries) =>
      /\ ~result[t].success
      /\ result[t].error.error_category =
           IF faults[t][Len(faults[t])].fault \in
                {"429", "400", "500", "502", "503", "timeout"}
           THEN "API_FAILURE" ELSE "SYSTEM_ERROR"

\* A page whose first attempt got a 503 and whose last attempt ended in an
\* unexpected fault.
C24_Witness ==
  \E t \in Tasks :
    /\ pc[t] = "done"
    /\ Len(faults[t]) = max_retries + 1
    /\ faults[t][1].fault = "503"
    /\ faults[t][Len(faults[t])].fault = "exception"
    /\ faults[t][Len(faults[t])].attempt = max_retries
    /\ result[t].error.error_category = "SYSTEM_ERROR"
\* C25: an attempt whose image cannot be encoded (the step of the loop that
\* neither issues the call nor sleeps on the sliding window) ends the page
\* at once in a SYSTEM_ERROR failure, without an HTTP call, and a page that
\* has its outcome issues no call and waits for no retry afterwards.
C25_EncodeFailureTerminal ==
  [][\A t \in Tasks :
       /\ (/\ pc[t] = "process"
           /\ ~AttemptsExhausted(attempt[t])
           /\ pc'[t] \notin {"process", "http", "tracker_sleep"}) =>
            /\ pc'[t] = "update_capacity"
            /\ ~result'[t].success
            /\ result'[t].error.error_category = "SYSTEM_ERROR"
            /\ result'[t].error.error_message = "Failed to encode image"
            /\ calls'[t] = calls[t]
            /\ faults'[t] = faults[t]
       /\ pc[t] \in AfterProcessing =>
            /\ pc'[t] \in AfterProcessing
            /\ calls'[t] = calls[t]
            /\ result'[t] = result[t]]_vars

\* A page ended by an encoding failure of its first attempt.
C25_Witness ==
  \E t \in Tasks :
    /\ pc[t] = "done"
    /\ result[t].error.error_message = "Failed to encode image"
    /\ result[t].error.error_category = "SYSTEM_ERROR"
    /\ calls[t] = 0
\* C26: a 429 sets the time of the last rate limit error; a task of the
\* capacity loop sleeps only when the capacity is insufficient, for the rest
\* of the cooldown when that time is less than
\* seconds_to_pause_after_rate_limit_error ago and for the short interval
\* otherwise.
C26_CooldownAfterRateLimit ==
  [][\A t \in Tasks :
       /\ (/\ pc[t] = "http"
           /\ Len(faults'[t]) > Len(faults[t])
           /\ faults'[t][Len(faults'[t])].fault = "429") =>
            rate_limit_age' = 0
       /\ (pc[t] = "wait_capacity" /\ pc'[t] # "wait_capacity") =>
            /\ pc'[t] = "process" <=>
                 /\ available_request_capacity' >= 1 * Resolution
                 /\ available_token_capacity' >= 1000 * Resolution
            /\ pc'[t] = "cooldown_sleep" =>
                 rate_limit_age * 60 < 15 * Resolution
            /\ pc'[t] = "capacity_sleep" =>
                 rate_limit_age * 60 >= 15 * Resolution]_vars

\* A task that found no capacity right after the 429 of another page.
C26_Witness ==
  \E t, u \in Tasks :
    /\ pc[t] = "cooldown_sleep"
    /\ faults[u] # <<>>
    /\ faults[u][Len(faults[u])].fault = "429"
    /\ rate_limit_age = 0
\* C27: the batches do not interfere through the rate state: whether a page
\* may issue its call depends on the calls of its own batch only, so a page
\* is refused by the sliding window (and sleeps instead of calling) only
\* when its own batch has issued as many calls as the window allows.
C27_BatchesDoNotInterfere ==
  \A t \in Tasks :
    pc[t] = "tracker_sleep" =>
      Sum([u \in 1..Len(pages) |-> calls[u]]) >= tracker_rate_limit
\* The tasks that passed the test of _wait_for_capacity and have not called
\* _update_capacity_after_request yet.
Undebited ==
  {t \in Tasks : pc[t] \in {"process", "tracker_sleep", "http", "backoff",
                             "update_capacity"}}

\* C28: at most 3 tasks are between the capacity test they passed and their
\* debit, so the request capacity is never below 1 - 3 and the token
\* capacity never below 1000 * (1 - 3).
C28_CapacityLowerBound ==
  /\ Cardinality(Undebited) <= 3
  /\ available_request_capacity >= (1 - 3) * Resolution
  /\ available_token_capacity >= 1000 * (1 - 3) * Resolution
  /\ available_request_capacity - Cardinality(Undebited) * Resolution
       >= (1 - 3) * Resolution

\* Three tasks admitted on a capacity of one request have all debited it.
C28_Witness ==
  /\ available_request_capacity = (1 - 3) * Resolution
  /\ \E t \in Tasks : pc[t] \in {"start", "wait_capacity", "capacity_sleep"}
\* C29: a page ends in "All retry attempts failed" only after
\* max_retries + 1 HTTP calls were issued for it: every iteration of the
\* retry loop issues a call.
C29_ExhaustedAfterAllCalls ==
  \A t \in Tasks :
    (/\ pc[t] \in AfterProcessing
     /\ result[t].error.error_message = "All retry attempts failed") =>
      calls[t] = max_retries + 1
\* C30: the sliding window never holds more than its limit of 60 calls, and
\* every HTTP call that was issued is recorded in it when it ends.
C30_WindowLimitKept ==
  [][/\ CountRequests(tracker_requests') <= tracker_rate_limit
     /\ \A t \in Tasks :
          (pc[t] = "http" /\ pc'[t] # "http") =>
            CountRequests(tracker_requests') =
              CountRequests(tracker_requests) + 1]_vars
=============================================================================
